---- MODULE Spec2Model ----
(***************************************************************************)
(* Doggo platform: the veterinarian availability computation and the       *)
(* booking-creation handler that relies on it, the TinDog compatibility    *)
(* score and the medical triage score.                                     *)
(*                                                                         *)
(* Times of day are minutes after midnight of the requested date, in the   *)
(* server's local time (Date.setHours / Date.toTimeString are local).      *)
(* Working hours are stored as "HH:MM" strings and slot labels are         *)
(* produced as "HH:MM" strings, as in the source.                          *)
(***************************************************************************)
EXTENDS Integers, Sequences, FiniteSets, TLC

VARIABLES
    veterinarians,   \* veterinarian table: id -> [workingHours, isAcceptingPatients]
    bookings,        \* booking table, in insertion order
    date,            \* requested date, as its day of the week (Date.getDay)
    queryVet,        \* veterinarianId of the last availability query
    availableSlots,  \* result of the last availability query
    queried,         \* TRUE once an availability query has been answered
    validationError, \* TRUE when the last availability query reported a validation error
    pc,              \* per booking request: position in the POST /bookings handler
    req,             \* per booking request: the request body fields read by the handler
    responses,       \* triage responses collected so far: sequence of [questionId, answer]
    triageResult,    \* result of calculateTriageScore on `responses`
    triaged,         \* TRUE while triageResult is the result for `responses`
    dogs,            \* the two dogs of a comparison: 1..2 -> dog profile
    owners,          \* their owners' address.coordinates: 1..2 -> [hasCoordinates, km]
    now,             \* the clock read by dayjs(), in months
    matchScore,      \* last result of calculateCompatibilityScore
    subScores,       \* the sub-scores of that calculation, each a fraction <<num, den>>
    scoredAt,        \* value of the clock at the last calculation
    scored,          \* TRUE while matchScore is the score of the present profiles
    edits,           \* number of profile updates so far
    response,        \* endpoint and HTTP status of the last request to a booking endpoint
    reviews,         \* per veterinarian: [rating (in tenths), totalReviews]
    matches,         \* match records, in insertion order
    apc,             \* per owner: position in the match-action handler
    areq,            \* per owner: the action requested and the record found
    acted,           \* number of match-action requests so far
    requests,        \* the rate limiter's Map: key -> [present, count, resetTime]
    limiterNow,      \* Date.now() of the rate limiter, in ticks
    window,          \* per key: when the current fixed window was opened and how many
                     \* requests of it were passed on to the next handler
    verdict          \* the rate limiter's answer to the last request: "next", "429" or "none"

availVars == <<veterinarians, bookings, date, queryVet, availableSlots, queried,
              validationError, pc, req>>
triageVars == <<responses, triageResult, triaged>>
matchVars == <<dogs, owners, now, matchScore, subScores, scoredAt, scored, edits>>
lifecycleVars == <<response, reviews>>
actionVars == <<matches, apc, areq, acted>>
limiterVars == <<requests, limiterNow, window, verdict>>
serviceVars == <<lifecycleVars, actionVars, limiterVars>>
vars == <<availVars, triageVars, matchVars, serviceVars>>

----------------------------------------------------------------------------
(* Bounds of the model *)

BaseTime == 540          \* earliest time of day the model uses (09:00)
MaxTick == 4             \* times of day are BaseTime + 15*k, k in 0..MaxTick
MaxRules == 1            \* rules in a drawn workingHours array
MaxBookings == 2         \* rows of a drawn booking table
MaxDurSteps == 1         \* durations are MinDuration + 15*k, k in 0..MaxDurSteps
MaxDay == 2              \* days of the week are 1..MaxDay
MaxRequests == 2         \* concurrent POST /bookings requests
MaxScaleStep == 3        \* scale answers are 5*k, k in -1..MaxScaleStep
MaxEdits == 3            \* profile updates before a comparison
MaxClockTicks == 1       \* the clock advances at most this many half-years
MaxAgeSteps == 3         \* birth dates are NowBase - 30*k months, k in 0..MaxAgeSteps
MaxTags == 2             \* length of a temperament list
NowBase == 120           \* the clock at the start, in months

(* Program constants *)

SlotMinutes == 30        \* stride of the slot loop
MinDuration == 15        \* bookings.duration min

Times == {BaseTime + 15 * k : k \in 0..MaxTick}
Durations == {MinDuration + 15 * k : k \in 0..MaxDurSteps}
Days == 1..MaxDay
Vets == {"v1", "v2"}
Requests == 1..MaxRequests

IdleRequests == [r \in Requests |-> "idle"]
NoRequestBodies ==
    [r \in Requests |-> [dogOwned |-> FALSE, veterinarianId |-> "v1", scheduledAt |-> 0,
                         duration |-> 0, triageResponses |-> <<>>]]

Range(seq) == {seq[i] : i \in DOMAIN seq}

----------------------------------------------------------------------------
(* "HH:MM" formatting and parsing *)

\* n.toString().padStart(2, '0')
PadStart2(n) == IF n < 10 THEN "0" \o ToString(n) ELSE ToString(n)

\* `${hour.toString().padStart(2,'0')}:${minute.toString().padStart(2,'0')}`
TimeString(minutes) == PadStart2(minutes \div 60) \o ":" \o PadStart2(minutes % 60)

\* Number() of a string of decimal digits
RECURSIVE ToNumber(_)
ToNumber(s) ==
    IF Len(s) = 0 THEN 0
    ELSE LET d == SubSeq(s, Len(s), Len(s))
             v == CASE d = "0" -> 0 [] d = "1" -> 1 [] d = "2" -> 2 [] d = "3" -> 3
                    [] d = "4" -> 4 [] d = "5" -> 5 [] d = "6" -> 6 [] d = "7" -> 7
                    [] d = "8" -> 8 [] d = "9" -> 9
         IN 10 * ToNumber(SubSeq(s, 1, Len(s) - 1)) + v

\* const [h, m] = time.split(':').map(Number);  h * 60 + m
ParseMinutes(time) == ToNumber(SubSeq(time, 1, 2)) * 60 + ToNumber(SubSeq(time, 4, 5))

----------------------------------------------------------------------------
(* getVeterinarianAvailability *)

\* FindDaySchedule without the isAvailable test
FindDaySchedule_AnyRule(workingHours, dayOfWeek) ==
    LET hits == {i \in DOMAIN workingHours : workingHours[i].dayOfWeek = dayOfWeek}
    IN IF hits = {} THEN 0 ELSE CHOOSE i \in hits : \A j \in hits : i <= j

\* workingHours.find(wh => wh.dayOfWeek === dayOfWeek && wh.isAvailable): index of
\* the first matching rule, 0 when there is none
FindDaySchedule(workingHours, dayOfWeek) ==
    LET hits == {i \in DOMAIN workingHours :
                    workingHours[i].dayOfWeek = dayOfWeek /\ workingHours[i].isAvailable}
    IN IF hits = {} THEN 0 ELSE CHOOSE i \in hits : \A j \in hits : i <= j

\* DayBookings that counts confirmed bookings only
DayBookings_ConfirmedOnly(table, veterinarianId) ==
    {i \in DOMAIN table :
        /\ table[i].veterinarianId = veterinarianId
        /\ table[i].scheduledAt >= 0 /\ table[i].scheduledAt <= 1439
        /\ table[i].status = "confirmed"}

\* booking.findMany({ where: { veterinarianId, scheduledAt in the day, status not CANCELLED } })
\* every booking of the model is on the requested date (0 <= scheduledAt <= 1439)
DayBookings(table, veterinarianId) ==
    {i \in DOMAIN table :
        /\ table[i].veterinarianId = veterinarianId
        /\ table[i].scheduledAt >= 0 /\ table[i].scheduledAt <= 1439
        /\ table[i].status # "CANCELLED"}

\* IsBooked with the booking's first instant left out (> for >=)
IsBooked_StrictStart(table, veterinarianId, slotMinutes) ==
    \E i \in {j \in DOMAIN table : table[j].veterinarianId = veterinarianId
                                    /\ table[j].status # "CANCELLED"} :
        /\ slotMinutes > table[i].scheduledAt
        /\ slotMinutes < table[i].scheduledAt + table[i].duration

\* bookings.some(b => slotDateTime >= bookingStart && slotDateTime < bookingEnd)
IsBooked(table, veterinarianId, slotMinutes) ==
    \E i \in DayBookings(table, veterinarianId) :
        /\ slotMinutes >= table[i].scheduledAt
        /\ slotMinutes < table[i].scheduledAt + table[i].duration

\* SlotLoop with unshift for push: each label is put in front of the later ones' list
RECURSIVE SlotLoop_Unshift(_, _, _, _)
SlotLoop_Unshift(minutes, endMinutes, table, veterinarianId) ==
    IF minutes < endMinutes
    THEN SlotLoop_Unshift(minutes + SlotMinutes, endMinutes, table, veterinarianId)
         \o (IF IsBooked(table, veterinarianId, minutes) THEN <<>> ELSE <<TimeString(minutes)>>)
    ELSE <<>>

\* for (let minutes = startMinutes; minutes < endMinutes; minutes += 30) { ... push }
RECURSIVE SlotLoop(_, _, _, _)
SlotLoop(minutes, endMinutes, table, veterinarianId) ==
    IF minutes < endMinutes
    THEN (IF IsBooked(table, veterinarianId, minutes) THEN <<>> ELSE <<TimeString(minutes)>>)
         \o SlotLoop(minutes + SlotMinutes, endMinutes, table, veterinarianId)
    ELSE <<>>

getVeterinarianAvailability(vetTable, table, veterinarianId, dayOfWeek) ==
    IF veterinarianId \notin DOMAIN vetTable THEN <<>>
    ELSE LET workingHours == vetTable[veterinarianId].workingHours
             k == FindDaySchedule(workingHours, dayOfWeek)
         IN IF k = 0 THEN <<>>
            ELSE SlotLoop(ParseMinutes(workingHours[k].startTime),
                          ParseMinutes(workingHours[k].endTime), table, veterinarianId)

----------------------------------------------------------------------------
(* TriageSystem *)

\* TriageSystem.questions
questions == <<
    [id |-> "breathing_difficulty", type |-> "boolean",  weight |-> 10, options |-> <<>>],
    [id |-> "consciousness",        type |-> "boolean",  weight |-> 9,  options |-> <<>>],
    [id |-> "bleeding",             type |-> "multiple", weight |-> 8,
        options |-> <<"Nessuno", "Lieve", "Moderato", "Grave">>],
    [id |-> "pain_level",           type |-> "scale",    weight |-> 7,  options |-> <<>>],
    [id |-> "vomiting",             type |-> "boolean",  weight |-> 5,  options |-> <<>>],
    [id |-> "appetite",             type |-> "boolean",  weight |-> 4,  options |-> <<>>],
    [id |-> "mobility",             type |-> "boolean",  weight |-> 6,  options |-> <<>>],
    [id |-> "previous_issues",      type |-> "boolean",  weight |-> 3,  options |-> <<>>] >>

\* no question is scored inverted
InvertedQuestions_None == {}

\* question ids scored inverted: question.id === 'consciousness' || question.id === 'appetite'
InvertedQuestions == {"consciousness", "appetite"}

\* options.indexOf(answer): 0-based index of the first occurrence, -1 when absent
IndexOf(options, answer) ==
    LET hits == {i \in DOMAIN options : options[i] = answer}
    IN IF hits = {} THEN 0 - 1 ELSE (CHOOSE i \in hits : \A j \in hits : i <= j) - 1

\* responses.find(r => r.questionId === question.id): index of the first response
\* to the question, 0 when there is none
FindResponse(resps, id) ==
    LET hits == {i \in DOMAIN resps : resps[i].questionId = id}
    IN IF hits = {} THEN 0 ELSE CHOOSE i \in hits : \A j \in hits : i <= j

\* QuestionScore30 with the multiple choice divided by options.length
QuestionScore30_OptionCount(question, answer) ==
    CASE question.type = "boolean" ->
            IF question.id \in InvertedQuestions
            THEN (IF answer = FALSE THEN 30 * question.weight ELSE 0)
            ELSE (IF answer = TRUE THEN 30 * question.weight ELSE 0)
      [] question.type = "scale" -> 3 * answer * question.weight
      [] question.type = "multiple" ->
            (30 * IndexOf(question.options, answer) * question.weight)
                \div Len(question.options)

\* score of one answered question, in thirtieths of a point (the scale divides by 10
\* and the multiple choice by options.length - 1 = 3; 30 is a common multiple)
QuestionScore30(question, answer) ==
    CASE question.type = "boolean" ->
            IF question.id \in InvertedQuestions
            THEN (IF answer = FALSE THEN 30 * question.weight ELSE 0)
            ELSE (IF answer = TRUE THEN 30 * question.weight ELSE 0)
      [] question.type = "scale" -> 3 * answer * question.weight
      [] question.type = "multiple" ->
            (30 \div (Len(question.options) - 1)) * IndexOf(question.options, answer)
                * question.weight

\* the forEach over the questions: totalScore in thirtieths of a point
RECURSIVE TotalScore30(_, _)
TotalScore30(k, resps) ==
    IF k = 0 THEN 0
    ELSE LET i == FindResponse(resps, questions[k].id)
         IN TotalScore30(k - 1, resps)
            + (IF i = 0 THEN 0 ELSE QuestionScore30(questions[k], resps[i].answer))

\* maxPossibleScore that adds the weight after the `if (!response) return`: the weights
\* of the questions `responses` answers (of all of them when it answers none)
RECURSIVE MaxPossibleScore_Answered(_)
MaxPossibleScore_Answered(k) ==
    IF k = 0 THEN 0
    ELSE MaxPossibleScore_Answered(k - 1)
         + (IF \/ FindResponse(responses, questions[k].id) # 0
               \/ \A j \in DOMAIN questions : FindResponse(responses, questions[j].id) = 0
            THEN questions[k].weight ELSE 0)

\* maxPossibleScore: every question's weight, answered or not
RECURSIVE MaxPossibleScore(_)
MaxPossibleScore(k) == IF k = 0 THEN 0 ELSE MaxPossibleScore(k - 1) + questions[k].weight

\* Math.round(num / den) for den > 0: the nearest integer, halves towards +infinity
RoundDiv(num, den) == (2 * num + den) \div (2 * den)

\* Math.round((totalScore / maxPossibleScore) * 100)
NormalizedScore(resps) ==
    RoundDiv(100 * TotalScore30(Len(questions), resps), 30 * MaxPossibleScore(Len(questions)))

\* urgency bands whose medium band starts at 0
UrgencyLevel_MediumFromZero(score) ==
    IF score >= 80 THEN "critical"
    ELSE IF score >= 60 THEN "high"
    ELSE IF score >= 0 THEN "medium"
    ELSE "low"

\* urgency bands with > for >=
UrgencyLevel_StrictBands(score) ==
    IF score > 80 THEN "critical"
    ELSE IF score > 60 THEN "high"
    ELSE IF score > 30 THEN "medium"
    ELSE "low"

\* the urgency bands and flags of calculateTriageScore
UrgencyLevel(score) ==
    IF score >= 80 THEN "critical"
    ELSE IF score >= 60 THEN "high"
    ELSE IF score >= 30 THEN "medium"
    ELSE "low"

calculateTriageScore(resps) ==
    LET normalizedScore == NormalizedScore(resps)
        urgencyLevel == UrgencyLevel(normalizedScore)
    IN [score |-> normalizedScore,
        urgencyLevel |-> urgencyLevel,
        veterinarianRequired |-> urgencyLevel \in {"critical", "high", "medium"},
        emergencyServices |-> urgencyLevel = "critical"]

----------------------------------------------------------------------------
(* MatchingAlgorithm *)

\* sub-scores are fractions <<numerator, denominator>> with a positive denominator
Abs(n) == IF n < 0 THEN 0 - n ELSE n
Max0(frac) == IF frac[1] < 0 THEN <<0, frac[2]>> ELSE frac
Times10(k, frac) == <<k * frac[1], frac[2]>>
Plus(f, g) == <<f[1] * g[2] + g[1] * f[2], f[2] * g[2]>>

sizeOrder == <<"tiny", "small", "medium", "large", "giant">>
activityOrder == <<"low", "moderate", "high", "very_high">>

\* dayjs().diff(birth, 'year'): whole years from birth to clock (both in months, same
\* day of the month), truncated towards zero
DiffYears(clock, birth) ==
    IF clock >= birth THEN (clock - birth) \div 12 ELSE 0 - ((birth - clock) \div 12)

\* DateUtils.calculateAge(birthDate).years
calculateAge(birthDate, clock) == DiffYears(clock, birthDate)

\* Math.max(0, 1 - difference * 0.2)
getSizeCompatibility(size1, size2) ==
    LET difference == Abs(IndexOf(sizeOrder, size1) - IndexOf(sizeOrder, size2))
    IN Max0(<<5 - difference, 5>>)

\* 1.0 within 2 years, 0.7 within 4, 0.4 within 6, else 0.1
getAgeCompatibility(birthDate1, birthDate2, clock) ==
    LET ageDifference == Abs(calculateAge(birthDate1, clock) - calculateAge(birthDate2, clock))
    IN IF ageDifference <= 2 THEN <<10, 10>>
       ELSE IF ageDifference <= 4 THEN <<7, 10>>
       ELSE IF ageDifference <= 6 THEN <<4, 10>>
       ELSE <<1, 10>>

\* Math.max(0, 1 - difference * 0.25)
getActivityCompatibility(level1, level2) ==
    LET difference == Abs(IndexOf(activityOrder, level1) - IndexOf(activityOrder, level2))
    IN Max0(<<4 - difference, 4>>)

\* commonTraits.length / new Set([...t1, ...t2]).size, 0.5 when a list is empty
getTemperamentCompatibility(temperament1, temperament2) ==
    IF Len(temperament1) = 0 \/ Len(temperament2) = 0 THEN <<1, 2>>
    ELSE LET commonTraits == {i \in DOMAIN temperament1 : temperament1[i] \in Range(temperament2)}
             totalTraits == Range(temperament1) \cup Range(temperament2)
         IN <<Cardinality(commonTraits), Cardinality(totalTraits)>>

\* GeoUtils.calculateDistance for two points on one meridian, given by their distance
\* in km from a reference point: the haversine distance is the difference
calculateDistance(point1, point2) == Abs(point1.km - point2.km)

\* Math.max(0, 1 - distance / 50)
ProximityScore(distance) == Max0(<<50 - distance, 50>>)

\* gender score that does not prefer different genders
GenderScore_AlwaysOne(gender1, gender2) == <<1, 1>>

\* dog1.gender !== dog2.gender ? 1 : 0.7
GenderScore(gender1, gender2) == IF gender1 # gender2 THEN <<1, 1>> ELSE <<7, 10>>

\* Math.min that returns its first argument
Min_First(a, b) == a

\* Math.min
Min(a, b) == IF a < b THEN a ELSE b

calculateCompatibilityScore(dog1, dog2, user1, user2, clock) ==
    LET sizeCompatibility == getSizeCompatibility(dog1.size, dog2.size)
        ageCompatibility == getAgeCompatibility(dog1.birthDate, dog2.birthDate, clock)
        activityCompatibility == getActivityCompatibility(dog1.activityLevel, dog2.activityLevel)
        temperamentCompatibility == getTemperamentCompatibility(dog1.temperament, dog2.temperament)
        proximity ==
            IF user1.hasCoordinates /\ user2.hasCoordinates
            THEN Times10(15, ProximityScore(calculateDistance(user1, user2)))
            ELSE <<0, 1>>
        genderScore == GenderScore(dog1.gender, dog2.gender)
        score == Plus(Plus(Plus(Plus(Plus(Times10(20, sizeCompatibility),
                                          Times10(15, ageCompatibility)),
                                     Times10(20, activityCompatibility)),
                                Times10(20, temperamentCompatibility)),
                           proximity),
                      Times10(10, genderScore))
    IN Min(RoundDiv(score[1], score[2]), 100)

\* the locals sizeCompatibility, ageCompatibility, activityCompatibility,
\* temperamentCompatibility, proximityScore (0 when the geographic term is skipped)
\* and genderScore of calculateCompatibilityScore
SubScores(dog1, dog2, user1, user2, clock) ==
    [size |-> getSizeCompatibility(dog1.size, dog2.size),
     age |-> getAgeCompatibility(dog1.birthDate, dog2.birthDate, clock),
     activity |-> getActivityCompatibility(dog1.activityLevel, dog2.activityLevel),
     temperament |-> getTemperamentCompatibility(dog1.temperament, dog2.temperament),
     proximity |-> IF user1.hasCoordinates /\ user2.hasCoordinates
                   THEN ProximityScore(calculateDistance(user1, user2)) ELSE <<0, 1>>,
     gender |-> GenderScore(dog1.gender, dog2.gender)]

----------------------------------------------------------------------------
(* The parts of the state an operation family leaves at rest *)

AvailIdle ==
    /\ veterinarians = [v \in {"v1"} |-> [workingHours |-> <<>>, isAcceptingPatients |-> TRUE]]
    /\ bookings = <<>>
    /\ date = 1
    /\ queryVet = "v1"
    /\ availableSlots = <<>>
    /\ queried = FALSE
    /\ validationError = FALSE
    /\ pc = IdleRequests
    /\ req = NoRequestBodies

NoTriageResult ==
    [score |-> 0, urgencyLevel |-> "none", veterinarianRequired |-> FALSE,
     emergencyServices |-> FALSE]

TriageIdle ==
    /\ responses = <<>>
    /\ triageResult = NoTriageResult
    /\ triaged = FALSE

\* two dogs with the same profile whose owners live at the same place
BaselineDog ==
    [size |-> "medium", birthDate |-> NowBase, activityLevel |-> "moderate",
     temperament |-> <<"amichevole">>, gender |-> "maschio"]

NoSubScores ==
    [size |-> <<0, 1>>, age |-> <<0, 1>>, activity |-> <<0, 1>>, temperament |-> <<0, 1>>,
     proximity |-> <<0, 1>>, gender |-> <<0, 1>>]

MatchIdle ==
    /\ dogs = [d \in 1..2 |-> BaselineDog]
    /\ owners = [d \in 1..2 |-> [hasCoordinates |-> TRUE, km |-> 0]]
    /\ now = NowBase
    /\ matchScore = 0
    /\ subScores = NoSubScores
    /\ scoredAt = NowBase
    /\ scored = FALSE
    /\ edits = 0

Owners == 1..2
Keys == {"ip1", "ip2"}

NoResponse == [endpoint |-> "none", status |-> 0]

LifecycleIdle ==
    /\ response = NoResponse
    /\ reviews = [v \in Vets |-> [rating |-> 0, totalReviews |-> 0]]

NoAction == [action |-> "none", found |-> 0, otherAction |-> "none"]
ActionIdle ==
    /\ matches = <<>>
    /\ apc = [o \in Owners |-> "idle"]
    /\ areq = [o \in Owners |-> NoAction]
    /\ acted = 0

\* a key the Map does not hold
NoEntry == [present |-> FALSE, count |-> 0, resetTime |-> 0]

LimiterIdle ==
    /\ requests = [k \in Keys |-> NoEntry]
    /\ limiterNow = 0
    /\ window = [k \in Keys |-> [openedAt |-> 0 - 1, passed |-> 0]]
    /\ verdict = "none"

ServiceIdle == LifecycleIdle /\ ActionIdle /\ LimiterIdle

----------------------------------------------------------------------------
(* The triage questionnaire *)

ScaleAnswers == {5 * k : k \in (0 - 1)..MaxScaleStep}

\* answers of the type the question asks for; the request validation admits any
\* string, number or boolean
AnswersTo(question) ==
    CASE question.type = "boolean" -> BOOLEAN
      [] question.type = "scale" -> ScaleAnswers
      [] question.type = "multiple" -> Range(question.options) \cup {"Altro"}

\* the position of a question id in the bank, 0 for an id that is not in the bank
QuestionIndex(id) ==
    IF \E k \in DOMAIN questions : questions[k].id = id
    THEN CHOOSE k \in DOMAIN questions : questions[k].id = id ELSE 0

LastAnswered == IF responses = <<>> THEN 0 ELSE QuestionIndex(responses[Len(responses)].questionId)

\* the client adds the answer to one more question, in the order of the bank; a
\* result obtained before is kept by the client, but is no longer that of `responses`
AnswerQuestion(k, answer) ==
    /\ k > LastAnswered
    /\ responses' = Append(responses, [questionId |-> questions[k].id, answer |-> answer])
    /\ triaged' = FALSE
    /\ UNCHANGED <<triageResult, availVars, matchVars, serviceVars>>

\* the client sends a response whose questionId is not in the bank
AnswerUnknownQuestion ==
    /\ ~triaged
    /\ responses = <<>>
    /\ responses' = <<[questionId |-> "temperature", answer |-> TRUE]>>
    /\ UNCHANGED <<triageResult, triaged, availVars, matchVars, serviceVars>>

\* TriageSystem.calculateTriageScore(responses)
CalculateTriage ==
    /\ ~triaged
    /\ triageResult' = calculateTriageScore(responses)
    /\ triaged' = TRUE
    /\ UNCHANGED <<responses, availVars, matchVars, serviceVars>>

InitTriage == AvailIdle /\ TriageIdle /\ MatchIdle /\ ServiceIdle

NextTriage ==
    \/ \E k \in DOMAIN questions : \E a \in AnswersTo(questions[k]) : AnswerQuestion(k, a)
    \/ AnswerUnknownQuestion
    \/ CalculateTriage

SpecTriage == InitTriage /\ [][NextTriage]_vars

\* bank questions answered by `responses`, with the answer that counts
Answered(id) == FindResponse(responses, id) # 0
AnswerOf(id) == responses[FindResponse(responses, id)].answer
BooleanQuestions == {k \in DOMAIN questions : questions[k].type = "boolean"}

\* C7: for every response list the request validation admits, the triage score is an
\* integer between 0 and 100.
C7_ScoreInRange == triaged => triageResult.score \in 0..100

\* every boolean question is answered false
AllBooleansFalse ==
    \A k \in BooleanQuestions : Answered(questions[k].id) /\ AnswerOf(questions[k].id) = FALSE

\* C8: a response set that answers every boolean question with false yields
\* urgencyLevel critical.
C8_AllFalseIsCritical == (triaged /\ AllBooleansFalse) => triageResult.urgencyLevel = "critical"

\* the worst answer to every question of the bank: false to the two positive-phrased
\* questions, true to the other boolean questions, 10 on the scale, the last option
WorstCase ==
    \A k \in DOMAIN questions :
        /\ Answered(questions[k].id)
        /\ AnswerOf(questions[k].id) =
              (CASE questions[k].type = "boolean" -> questions[k].id \notin InvertedQuestions
                 [] questions[k].type = "scale" -> 10
                 [] questions[k].type = "multiple" -> questions[k].options[Len(questions[k].options)])

\* C8 (amended): answering every boolean question with false, and nothing else, scores
\* only the two positive-phrased questions: score 25, urgencyLevel low; the worst-case
\* response set scores 100 and is critical.
C8_WorstCaseIsCritical ==
    triaged =>
        /\ (AllBooleansFalse /\ Len(responses) = Cardinality(BooleanQuestions))
              => (triageResult.score = 25 /\ triageResult.urgencyLevel = "low")
        /\ WorstCase => (triageResult.score = 100 /\ triageResult.urgencyLevel = "critical")

C8_Witness ==
    /\ triaged /\ WorstCase
    /\ triageResult.score = 100 /\ triageResult.urgencyLevel = "critical"

----------------------------------------------------------------------------
(* POST /bookings *)

\* Math.ceil(n / 10)
CeilDiv10(n) == 0 - ((0 - n) \div 10)

\* request bodies the validation admits (the model keeps the fields the handler
\* branches on or stores; dogOwned stands for dog.owner === req.user.id)
BookingTriageInputs ==
    {<<>>,
     <<[questionId |-> "vomiting", answer |-> FALSE]>>,
     <<[questionId |-> "breathing_difficulty", answer |-> TRUE]>>}
BookingBodies ==
    [dogOwned : BOOLEAN, veterinarianId : Vets, scheduledAt : Times, duration : Durations,
     triageResponses : BookingTriageInputs]

\* new Date(scheduledAt).toTimeString().substr(0, 5)
RequestedTime(scheduledAt) == TimeString(scheduledAt)

\* urgencyScore of the handler: 1 without triage responses, else Math.ceil(score / 10)
UrgencyScore(triageResponses) ==
    IF Len(triageResponses) > 0
    THEN CeilDiv10(calculateTriageScore(triageResponses).score) ELSE 1

\* the data of payload.create({ collection: 'bookings', ... })
NewBooking(body) ==
    [veterinarianId |-> body.veterinarianId, scheduledAt |-> body.scheduledAt,
     duration |-> body.duration, status |-> "pending",
     urgencyScore |-> UrgencyScore(body.triageResponses),
     cancelledReason |-> "none", cancellationNotes |-> "none", customerRating |-> 0]

\* the handler up to the availability check: 403 when the dog is not the user's, 400
\* when the veterinarian does not accept patients, 409 when the requested time is
\* not among the available slots
CheckTimeSlot(r, body) ==
    /\ pc[r] = "idle"
    /\ req' = [req EXCEPT ![r] = body]
    /\ pc' = [pc EXCEPT ![r] =
                IF ~body.dogOwned THEN "denied"
                ELSE IF body.veterinarianId \notin DOMAIN veterinarians
                        \/ ~veterinarians[body.veterinarianId].isAcceptingPatients
                     THEN "unavailable"
                ELSE IF RequestedTime(body.scheduledAt) \notin
                          Range(getVeterinarianAvailability(veterinarians, bookings,
                                                            body.veterinarianId, date))
                     THEN "conflict"
                ELSE "checked"]
    /\ UNCHANGED <<veterinarians, bookings, date, queryVet, availableSlots, queried, validationError,
                 triageVars, matchVars, serviceVars>>

\* CreateBooking with a second availability check right before the insert
CreateBooking_Recheck(r) ==
    /\ pc[r] = "checked"
    /\ LET free == RequestedTime(req[r].scheduledAt) \in
                      Range(getVeterinarianAvailability(veterinarians, bookings,
                                                        req[r].veterinarianId, date))
       IN /\ bookings' = IF free THEN Append(bookings, NewBooking(req[r])) ELSE bookings
          /\ pc' = [pc EXCEPT ![r] = IF free THEN "created" ELSE "conflict"]
    /\ UNCHANGED <<veterinarians, date, queryVet, availableSlots, queried, validationError,
                 req, triageVars, matchVars, serviceVars>>

\* the rest of the handler: the triage score, payload.create, the 201 response
CreateBooking(r) ==
    /\ pc[r] = "checked"
    /\ bookings' = Append(bookings, NewBooking(req[r]))
    /\ pc' = [pc EXCEPT ![r] = "created"]
    /\ UNCHANGED <<veterinarians, date, queryVet, availableSlots, queried, validationError,
                 req, triageVars, matchVars, serviceVars>>

\* GET /veterinarians/:id/availability -> db.getVeterinarianAvailability(id, date);
\* every path of the function ends in a return of a slot list, none in a throw
GetAvailability(v) ==
    /\ ~queried
    /\ queryVet' = v
    /\ availableSlots' = getVeterinarianAvailability(veterinarians, bookings, v, date)
    /\ queried' = TRUE
    /\ validationError' = FALSE
    /\ UNCHANGED <<veterinarians, bookings, date, pc, req, triageVars, matchVars, serviceVars>>

\* the body of a cancel request
CancelBody == [reason |-> "client_request", notes |-> "notes"]

\* PATCH /bookings/:id/cancel that writes whoever asks and whenever
CancelBooking_NoChecks(i, admin, authorized, early) ==
    /\ i \in DOMAIN bookings
    /\ response' = [endpoint |-> "cancel", status |-> 200]
    /\ bookings' = [bookings EXCEPT ![i].status = "cancelled",
                                    ![i].cancelledReason = CancelBody.reason,
                                    ![i].cancellationNotes = CancelBody.notes]
    /\ UNCHANGED <<veterinarians, date, queryVet, availableSlots, queried, validationError,
                   pc, req, triageVars, matchVars, reviews, actionVars, limiterVars>>

\* PATCH /bookings/:id/cancel for the stored booking i: 403 unless the caller is an
\* admin, the booking's user or its veterinarian (authorized), 400 unless the
\* appointment is at least 24 hours away (early) or the caller is an admin; otherwise
\* payload.update writes status 'cancelled', the reason and the notes, whatever the
\* status was
CancelBooking(i, admin, authorized, early) ==
    /\ i \in DOMAIN bookings
    /\ response' = [endpoint |-> "cancel",
                    status |-> IF ~admin /\ ~authorized THEN 403
                               ELSE IF ~early /\ ~admin THEN 400 ELSE 200]
    /\ bookings' = IF (admin \/ authorized) /\ (early \/ admin)
                   THEN [bookings EXCEPT ![i].status = "cancelled",
                                         ![i].cancelledReason = CancelBody.reason,
                                         ![i].cancellationNotes = CancelBody.notes]
                   ELSE bookings
    /\ UNCHANGED <<veterinarians, date, queryVet, availableSlots, queried, validationError,
                   pc, req, triageVars, matchVars, reviews, actionVars, limiterVars>>

\* two veterinarians open on Monday for two slots from BaseTime; the second one may
\* not be accepting patients
OpenMonday ==
    <<[dayOfWeek |-> 1, startTime |-> TimeString(BaseTime),
       endTime |-> TimeString(BaseTime + 2 * SlotMinutes), isAvailable |-> TRUE]>>

Init ==
    /\ \E accepting \in BOOLEAN :
          veterinarians = [v \in Vets |->
              [workingHours |-> OpenMonday,
               isAcceptingPatients |-> IF v = "v1" THEN TRUE ELSE accepting]]
    /\ bookings = <<>>
    /\ date = 1
    /\ queryVet = "v1"
    /\ availableSlots = <<>>
    /\ queried = FALSE
    /\ validationError = FALSE
    /\ pc = IdleRequests
    /\ req = NoRequestBodies
    /\ TriageIdle
    /\ MatchIdle
    /\ ServiceIdle

Next ==
    \/ \E r \in Requests : \E body \in BookingBodies : CheckTimeSlot(r, body)
    \/ \E r \in Requests : CreateBooking(r)
    \/ \E i \in 1..MaxRequests : \E admin, authorized, early \in BOOLEAN :
          CancelBooking(i, admin, authorized, early)
    \/ \E v \in Vets : GetAvailability(v)

Spec == Init /\ [][Next]_vars

\* C3: two concurrent booking requests for the same veterinarian and slot can both pass
\* the availability check before either booking is stored, and nothing after the check
\* stops a request: every request that passed the check is stored as a new booking,
\* whatever the table holds by then.
C3_PassedCheckIsStored ==
    [][\A r \in Requests :
          (pc[r] = "checked" /\ pc'[r] # "checked") =>
              (pc'[r] = "created" /\ bookings' = Append(bookings, NewBooking(req[r])))]_vars

\* two stored, non-cancelled bookings of one veterinarian with the same start time
C3_DoubleBooking ==
    \E i, j \in DOMAIN bookings :
        /\ i < j
        /\ bookings[i].veterinarianId = bookings[j].veterinarianId
        /\ bookings[i].scheduledAt = bookings[j].scheduledAt
        /\ bookings[i].status = "pending" /\ bookings[j].status = "pending"

----------------------------------------------------------------------------
(* Inputs of the availability computation *)

DayRules == [dayOfWeek : Days, startTime : {TimeString(t) : t \in Times},
             endTime : {TimeString(t) : t \in Times}, isAvailable : BOOLEAN]
\* a Monday morning of six slots
MorningSchedule ==
    <<[dayOfWeek |-> 1, startTime |-> "09:00", endTime |-> "12:00", isAvailable |-> TRUE]>>
Schedules == UNION {[1..n -> DayRules] : n \in 0..MaxRules} \cup {MorningSchedule}
BookingRows == [veterinarianId : {"v1"}, scheduledAt : Times, duration : Durations,
                status : {"PENDING", "CANCELLED"}]
BookingTables == UNION {[1..n -> BookingRows] : n \in 0..MaxBookings}

InitAvail ==
    /\ \E s \in Schedules : veterinarians = [v \in {"v1"} |-> [workingHours |-> s, isAcceptingPatients |-> TRUE]]
    /\ bookings \in BookingTables
    /\ date \in Days
    /\ queryVet = "v1"
    /\ availableSlots = <<>>
    /\ queried = FALSE
    /\ validationError = FALSE
    /\ pc = IdleRequests
    /\ req = NoRequestBodies
    /\ TriageIdle
    /\ MatchIdle
    /\ ServiceIdle

NextAvail == \E v \in Vets : GetAvailability(v)

SpecAvail == InitAvail /\ [][NextAvail]_vars

----------------------------------------------------------------------------
(* Properties of the availability computation (checked under SpecAvail) *)

\* the rule the last query selected (0 when none, or when the veterinarian is unknown)
SelectedRule ==
    IF queryVet \in DOMAIN veterinarians
    THEN FindDaySchedule(veterinarians[queryVet].workingHours, date) ELSE 0
WindowStart == ParseMinutes(veterinarians[queryVet].workingHours[SelectedRule].startTime)
WindowEnd == ParseMinutes(veterinarians[queryVet].workingHours[SelectedRule].endTime)

\* candidate slot starts: WindowStart + k * SlotMinutes below WindowEnd
CandidateSlots ==
    {m \in WindowStart..(WindowEnd - 1) : (m - WindowStart) % SlotMinutes = 0}

\* half-open overlap of the slot [m, m + SlotMinutes) with a booked interval of the
\* queried veterinarian that is not cancelled
OverlapsBooking(m) ==
    \E i \in DayBookings(bookings, queryVet) :
        /\ m < bookings[i].scheduledAt + bookings[i].duration
        /\ bookings[i].scheduledAt < m + SlotMinutes

\* C1: a candidate slot is excluded from the result exactly when it overlaps some
\* non-cancelled booked interval under half-open overlap, so a booking that starts
\* strictly inside a slot removes that slot.
C1_ExcludedIffOverlap ==
    (queried /\ SelectedRule # 0) =>
        \A m \in CandidateSlots :
            (TimeString(m) \notin Range(availableSlots)) <=> OverlapsBooking(m)

\* C2: every returned label is WindowStart + k * SlotMinutes for some k >= 0 and is
\* at most WindowEnd - SlotMinutes, so a final partial slot is never returned.
C2_NoPartialSlot ==
    (queried /\ SelectedRule # 0) =>
        \A l \in Range(availableSlots) :
            \E m \in CandidateSlots : l = TimeString(m) /\ m <= WindowEnd - SlotMinutes

\* the booked intervals cover exactly the cells of `cells`: every booked interval has
\* slot-size length and starts on a cell, and every cell carries exactly one of them
TilesExactly(cells) ==
    LET booked == DayBookings(bookings, queryVet)
    IN /\ \A i \in booked : bookings[i].duration = SlotMinutes /\ bookings[i].scheduledAt \in cells
       /\ \A m \in cells : Cardinality({i \in booked : bookings[i].scheduledAt = m}) = 1

WindowIsWholeSlots == WindowStart < WindowEnd /\ (WindowEnd - WindowStart) % SlotMinutes = 0

\* C9: when the booked intervals tile the window exactly with slot-size intervals on
\* the slot grid the result is empty, and with any single one of them removed the
\* result is exactly the one slot that interval covered.
C9_TilingLeavesNothing ==
    (queried /\ SelectedRule # 0 /\ WindowIsWholeSlots) =>
        /\ TilesExactly(CandidateSlots) => availableSlots = <<>>
        /\ \A m \in CandidateSlots :
              TilesExactly(CandidateSlots \ {m}) => availableSlots = <<TimeString(m)>>

C9_Witness ==
    /\ queried /\ SelectedRule # 0 /\ WindowIsWholeSlots
    /\ \E m \in CandidateSlots :
          /\ CandidateSlots \ {m} # {}
          /\ TilesExactly(CandidateSlots \ {m})
          /\ availableSlots = <<TimeString(m)>>

\* rules of the requested day in the queried veterinarian's workingHours
RulesOfDay ==
    {i \in DOMAIN veterinarians[queryVet].workingHours :
        veterinarians[queryVet].workingHours[i].dayOfWeek = date}

C11_MalformedRuleIsRejected ==
    (queried /\ SelectedRule # 0 /\ WindowStart > WindowEnd) => validationError

\* C12: a cancelled booking is not counted as a booked interval: when a query is
\* answered, the slot of every cancelled booking of the queried veterinarian is in
\* the result, provided no other booking that is not cancelled overlaps that slot.
C12_CancelledSlotIsFree ==
    [][(~queried /\ queried' /\ SelectedRule' # 0) =>
          \A i \in DOMAIN bookings :
              (/\ bookings[i].status = "cancelled"
               /\ bookings[i].veterinarianId = queryVet'
               /\ bookings[i].scheduledAt \in CandidateSlots'
               /\ ~\E j \in DOMAIN bookings :
                      /\ bookings[j].status # "cancelled"
                      /\ bookings[j].veterinarianId = queryVet'
                      /\ bookings[i].scheduledAt < bookings[j].scheduledAt + bookings[j].duration
                      /\ bookings[j].scheduledAt < bookings[i].scheduledAt + SlotMinutes)
              => TimeString(bookings[i].scheduledAt) \in Range(availableSlots')]_vars

Digits == {"0", "1", "2", "3", "4", "5", "6", "7", "8", "9"}
\* a 24-hour, zero-padded HH:MM label
IsHHMM(l) ==
    /\ Len(l) = 5
    /\ \A k \in {1, 2, 4, 5} : SubSeq(l, k, k) \in Digits
    /\ SubSeq(l, 3, 3) = ":"
    /\ ToNumber(SubSeq(l, 1, 2)) <= 23 /\ ToNumber(SubSeq(l, 4, 5)) <= 59

MorningLabels == <<"09:00", "09:30", "10:00", "10:30", "11:00", "11:30">>

\* C13: the result lists HH:MM labels (24-hour, zero-padded) in strictly ascending
\* time order, hence without repetition; for the window 09:00-12:00 with no booking
\* of the veterinarian on the day it is exactly 09:00, 09:30, ..., 11:30.
C13_AscendingLabels ==
    queried =>
        /\ \A i \in DOMAIN availableSlots : IsHHMM(availableSlots[i])
        /\ \A i, j \in DOMAIN availableSlots :
              i < j => ParseMinutes(availableSlots[i]) < ParseMinutes(availableSlots[j])
        /\ (/\ queryVet \in DOMAIN veterinarians
            /\ veterinarians[queryVet].workingHours = MorningSchedule
            /\ date = 1
            /\ DayBookings(bookings, queryVet) = {})
           => availableSlots = MorningLabels

C13_Witness ==
    /\ queried /\ queryVet \in DOMAIN veterinarians
    /\ veterinarians[queryVet].workingHours = MorningSchedule
    /\ date = 1
    /\ DayBookings(bookings, queryVet) = {}
    /\ availableSlots = MorningLabels

----------------------------------------------------------------------------
(* Comparing two dogs *)

Tags == {"amichevole", "calmo"}
Temperaments == UNION {[1..n -> Tags] : n \in 0..MaxTags}
BirthDates == {NowBase - 30 * k : k \in 0..MaxAgeSteps}
Coordinates ==
    {[hasCoordinates |-> FALSE, km |-> 0]}
        \cup {[hasCoordinates |-> TRUE, km |-> k] : k \in {0, 10, 60}}
\* the values a field of a dog profile can take
\* the size and activityLevel values of a stored dog profile (the options of the Dogs
\* collection and of POST /dogs) next to the values of the DogSize and ActivityLevel
\* enums the algorithm is typed with
StoredSizes == {"TINY", "SMALL", "MEDIUM", "LARGE", "GIANT"}
StoredActivityLevels == {"LOW", "MODERATE", "HIGH", "VERY_HIGH"}
FieldValues ==
    [size |-> Range(sizeOrder) \cup StoredSizes, birthDate |-> BirthDates,
     activityLevel |-> Range(activityOrder) \cup StoredActivityLevels,
     temperament |-> Temperaments,
     gender |-> {"maschio", "femmina"}]

\* the owner of dog d changes one field of its profile
UpdateDog(d, field, value) ==
    /\ edits < MaxEdits
    /\ value # dogs[d][field]
    /\ dogs' = [dogs EXCEPT ![d][field] = value]
    /\ edits' = edits + 1
    /\ matchScore' = 0 /\ subScores' = NoSubScores /\ scoredAt' = NowBase /\ scored' = FALSE
    /\ UNCHANGED <<owners, now, availVars, triageVars, serviceVars>>

\* the owner of dog d sets or removes the coordinates of the address
UpdateAddress(d, coordinates) ==
    /\ edits < MaxEdits
    /\ coordinates # owners[d]
    /\ owners' = [owners EXCEPT ![d] = coordinates]
    /\ edits' = edits + 1
    /\ matchScore' = 0 /\ subScores' = NoSubScores /\ scoredAt' = NowBase /\ scored' = FALSE
    /\ UNCHANGED <<dogs, now, availVars, triageVars, serviceVars>>

\* half a year passes
ClockTick ==
    /\ now < NowBase + 6 * MaxClockTicks
    /\ now' = now + 6
    /\ UNCHANGED <<dogs, owners, matchScore, subScores, scoredAt, scored, edits,
                   availVars, triageVars, serviceVars>>

\* MatchingAlgorithm.calculateCompatibilityScore(dog1, dog2, dog1.owner, dog2.owner)
CalculateCompatibility ==
    /\ matchScore' = calculateCompatibilityScore(dogs[1], dogs[2], owners[1], owners[2], now)
    /\ subScores' = SubScores(dogs[1], dogs[2], owners[1], owners[2], now)
    /\ scoredAt' = now
    /\ scored' = TRUE
    /\ UNCHANGED <<dogs, owners, now, edits, availVars, triageVars, serviceVars>>

\* two stored dogs of the same size and activity level, one and two years old, sharing
\* one temperament tag of three, of different genders, their owners 10 km apart
ExampleDogs ==
    <<[size |-> "MEDIUM", birthDate |-> NowBase - 12, activityLevel |-> "HIGH",
       temperament |-> <<"amichevole", "energico">>, gender |-> "maschio"],
      [size |-> "MEDIUM", birthDate |-> NowBase - 24, activityLevel |-> "HIGH",
       temperament |-> <<"amichevole", "calmo">>, gender |-> "femmina"]>>
ExampleOwners == <<[hasCoordinates |-> TRUE, km |-> 0], [hasCoordinates |-> TRUE, km |-> 10]>>

ExampleMatch ==
    /\ dogs = ExampleDogs
    /\ owners = ExampleOwners
    /\ now = NowBase
    /\ matchScore = 0
    /\ subScores = NoSubScores
    /\ scoredAt = NowBase
    /\ scored = FALSE
    /\ edits = 0

InitMatch == AvailIdle /\ TriageIdle /\ (MatchIdle \/ ExampleMatch) /\ ServiceIdle

NextMatch ==
    \/ \E d \in 1..2 : \E field \in DOMAIN FieldValues :
          \E value \in FieldValues[field] : UpdateDog(d, field, value)
    \/ \E d \in 1..2 : \E coordinates \in Coordinates : UpdateAddress(d, coordinates)
    \/ ClockTick
    \/ CalculateCompatibility

SpecMatch == InitMatch /\ [][NextMatch]_vars

----------------------------------------------------------------------------
(* Properties of the compatibility score (checked under SpecMatch) *)

\* C4: the score has no clock dependency: recomputed for the same two dogs and the
\* same owner locations it is the same, whatever the clock shows at the time.
C4_NoClockDependency ==
    [][(scored /\ scored' /\ dogs' = dogs /\ owners' = owners) => matchScore' = matchScore]_vars

\* the score of the present profiles was computed at the present clock value
ScoredNow == scored /\ scoredAt = now

\* C5: the score is symmetric: the score of (a, b) equals the score of (b, a), also for
\* temperament lists that repeat a tag.
C5_Symmetric ==
    ScoredNow => matchScore = calculateCompatibilityScore(dogs[2], dogs[1], owners[2], owners[1], now)

SameDog == dogs[1] = dogs[2]
SharedCoordinates == owners[1].hasCoordinates /\ owners[2].hasCoordinates /\ owners[1].km = owners[2].km
GeoOmitted == ~owners[1].hasCoordinates \/ ~owners[2].hasCoordinates

\* C6: comparing a dog with itself yields 100 when both owners share coordinates and 85
\* when the geographic contribution is omitted.
C6_SelfScoreIsMaximum ==
    (scored /\ SameDog) =>
        /\ SharedCoordinates => matchScore = 100
        /\ GeoOmitted => matchScore = 85

\* C6 (amended): comparing a dog with itself yields 97 when both owners share
\* coordinates and 82 when the geographic contribution is omitted, for a non-empty
\* temperament list without repeated tags (the same gender scores 7 of 10); an empty
\* list yields 87 and 72; a list of n entries over d < n distinct tags yields
\* min(100, round(77 + 20 n / d)) and min(100, round(62 + 20 n / d)).
C6_SelfScore ==
    (scored /\ SameDog) =>
        LET n == Len(dogs[1].temperament)
            d == Cardinality(Range(dogs[1].temperament))
            geo == IF SharedCoordinates THEN 15 ELSE 0
        IN (SharedCoordinates \/ GeoOmitted) =>
              /\ (n > 0 /\ n = d) => matchScore = 82 + geo
              /\ n = 0 => matchScore = 72 + geo
              /\ n > d => matchScore = Min(100, RoundDiv((62 + geo) * d + 20 * n, d))

C6_Witness ==
    /\ scored /\ SameDog /\ SharedCoordinates
    /\ Len(dogs[1].temperament) > 0
    /\ matchScore = 97

\* C14: for every pair of dogs with a valid size, birth date, activity level and
\* gender the compatibility score is an integer from 0 to 100.
C14_ScoreInRange == scored => matchScore \in 0..100

\* a pair whose weighted sum exceeds 100 before the final Math.min
C14_Witness ==
    /\ scored /\ matchScore = 100
    /\ subScores.temperament[1] > subScores.temperament[2]

\* C15: when either owner lacks coordinates the geographic sub-score contributes 0
\* and its weight is not redistributed: the score of such a pair never exceeds 85.
C15_NoGeoAtMost85 ==
    (scored /\ GeoOmitted) => (subScores.proximity[1] = 0 /\ matchScore <= 85)

\* the reference score of the claim, in exact arithmetic: ranks of size and activity
\* level by their meaning, age bands in tenths, temperament as |intersection| / |union|
\* of the tag sets (1/2 when a list is empty), the geographic term 0 without coordinates
Pos(x) == IF x < 0 THEN 0 ELSE x
SizeRank(size) ==
    IF size \in Range(sizeOrder) THEN IndexOf(sizeOrder, size)
    ELSE IndexOf(<<"TINY", "SMALL", "MEDIUM", "LARGE", "GIANT">>, size)
ActivityRank(level) ==
    IF level \in Range(activityOrder) THEN IndexOf(activityOrder, level)
    ELSE IndexOf(<<"LOW", "MODERATE", "HIGH", "VERY_HIGH">>, level)
ReferenceScore ==
    LET sizeRankDiff == Abs(SizeRank(dogs[1].size) - SizeRank(dogs[2].size))
        activityDiff == Abs(ActivityRank(dogs[1].activityLevel) - ActivityRank(dogs[2].activityLevel))
        ageDiff == Abs(DiffYears(scoredAt, dogs[1].birthDate) - DiffYears(scoredAt, dogs[2].birthDate))
        ageBand10 == IF ageDiff <= 2 THEN 10 ELSE IF ageDiff <= 4 THEN 7
                     ELSE IF ageDiff <= 6 THEN 4 ELSE 1
        tags1 == Range(dogs[1].temperament)
        tags2 == Range(dogs[2].temperament)
        empty == tags1 = {} \/ tags2 = {}
        inter == IF empty THEN 1 ELSE Cardinality(tags1 \cap tags2)
        union == IF empty THEN 2 ELSE Cardinality(tags1 \cup tags2)
        distanceKm == Abs(owners[1].km - owners[2].km)
        geo100 == IF owners[1].hasCoordinates /\ owners[2].hasCoordinates
                  THEN 30 * Pos(50 - distanceKm) ELSE 0
        gender10 == IF dogs[1].gender # dogs[2].gender THEN 10 ELSE 7
        \* the weighted sum times 100 * union
        sum == union * (400 * Pos(5 - sizeRankDiff) + 150 * ageBand10
                        + 500 * Pos(4 - activityDiff) + geo100 + 100 * gender10)
               + 2000 * inter
    IN Min(100, RoundDiv(sum, 100 * union))

IsExamplePair == dogs = ExampleDogs /\ owners = ExampleOwners /\ scoredAt = NowBase

\* C16: the score equals the reference min(100, round(20 size + 15 ageBand +
\* 20 activity + 20 temperament + 15 distance + 10 gender)); for the same size, ages 1
\* and 2, the same activity level, temperament overlap 1/3, owners 10 km apart and
\* different genders it is 84.
C16_EqualsReference ==
    scored => (matchScore = ReferenceScore /\ (IsExamplePair => matchScore = 84))

\* C17: every sub-score of a calculation lies in [0, 1]; the temperament sub-score is
\* |intersection| / |union| of the two tag collections, and 1/2 when either is empty.
C17_SubScoresNormalized ==
    scored =>
        /\ \A f \in DOMAIN subScores :
              subScores[f][1] >= 0 /\ subScores[f][1] <= subScores[f][2]
        /\ LET tags1 == Range(dogs[1].temperament)
               tags2 == Range(dogs[2].temperament)
               t == subScores.temperament
           IN IF tags1 = {} \/ tags2 = {} THEN 2 * t[1] = t[2]
              ELSE t[1] * Cardinality(tags1 \cup tags2) = t[2] * Cardinality(tags1 \cap tags2)

\* the answers of `responses` to bank questions are of the question's type and range
ValidAnswers ==
    \A i \in DOMAIN responses :
        LET k == QuestionIndex(responses[i].questionId)
        IN k # 0 =>
              CASE questions[k].type = "boolean" -> responses[i].answer \in BOOLEAN
                [] questions[k].type = "scale" -> responses[i].answer \in 0..10
                [] questions[k].type = "multiple" ->
                      responses[i].answer \in Range(questions[k].options)

\* the scores of the answered questions of ks, added up, in thirtieths of a point
RECURSIVE AnsweredScore30(_)
AnsweredScore30(ks) ==
    IF ks = {} THEN 0
    ELSE LET k == CHOOSE q \in ks : TRUE
         IN QuestionScore30(questions[k], AnswerOf(questions[k].id))
            + AnsweredScore30(ks \ {k})

\* C18: a question without a response adds nothing to the numerator and its full
\* weight to the denominator: the score is round(100 * totalScore / 52) whatever
\* subset of the questions is answered; and a result computed after valid answers to
\* further questions were added is never lower than the result before.
C18_UnansweredCountInDenominator ==
    /\ [](triaged =>
            triageResult.score =
               RoundDiv(100 * AnsweredScore30({k \in DOMAIN questions : Answered(questions[k].id)}),
                        30 * 52))
    /\ [][(~triaged /\ triaged' /\ triageResult # NoTriageResult /\ ValidAnswers')
            => triageResult'.score >= triageResult.score]_vars

\* a result for a questionnaire with unanswered questions: only breathing_difficulty
\* (weight 10) and pain_level 5 (3.5 of 7) are answered, 13.5 of 52 points
C18_Witness ==
    /\ triaged
    /\ {k \in DOMAIN questions : Answered(questions[k].id)} = {1, 4}
    /\ AnswerOf("breathing_difficulty") = TRUE /\ AnswerOf("pain_level") = 5
    /\ triageResult.score = 26

\* C19: the urgency level and the flags are a function of the score alone: critical
\* from 80, high from 60 to 79, medium from 30 to 59, low below 30;
\* veterinarianRequired exactly from 30 and emergencyServices exactly from 80.
C19_BandsFollowScore ==
    triaged =>
        /\ (triageResult.urgencyLevel = "critical") <=> (triageResult.score >= 80)
        /\ (triageResult.urgencyLevel = "high") <=> (triageResult.score \in 60..79)
        /\ (triageResult.urgencyLevel = "medium") <=> (triageResult.score \in 30..59)
        /\ (triageResult.urgencyLevel = "low") <=> (triageResult.score < 30)
        /\ triageResult.veterinarianRequired <=> (triageResult.score >= 30)
        /\ triageResult.emergencyServices <=> (triageResult.score >= 80)

\* a result at the lower end of a band
C19_Witness ==
    /\ triaged
    /\ triageResult.score = 60
    /\ triageResult.urgencyLevel = "high"
    /\ triageResult.veterinarianRequired /\ ~triageResult.emergencyServices

\* the score the claim gives the answer to question k, in thirtieths of a point
ClaimedScore30(k) ==
    LET q == questions[k]
        a == AnswerOf(q.id)
    IN IF q.id \in {"consciousness", "appetite"} THEN (IF a = FALSE THEN 30 * q.weight ELSE 0)
       ELSE IF q.type = "boolean" THEN (IF a = TRUE THEN 30 * q.weight ELSE 0)
       ELSE IF q.type = "scale" THEN 3 * a * q.weight
       ELSE LET optionIndex == (CHOOSE i \in DOMAIN q.options : q.options[i] = a) - 1
            IN (30 * optionIndex * q.weight) \div (Len(q.options) - 1)

RECURSIVE ClaimedTotal30(_)
ClaimedTotal30(ks) ==
    IF ks = {} THEN 0
    ELSE LET k == CHOOSE q \in ks : TRUE
         IN ClaimedScore30(k) + ClaimedTotal30(ks \ {k})

\* C20: consciousness and appetite score their full weight only on false, every other
\* boolean question only on true, a scale answer n scores n/10 of the weight and a
\* multiple-choice answer optionIndex/(numOptions - 1) of it; with every question at
\* its most severe value the score is 100 and the urgency critical.
C20_PerQuestionScoring ==
    (triaged /\ ValidAnswers) =>
        /\ triageResult.score =
              RoundDiv(100 * ClaimedTotal30({k \in DOMAIN questions : Answered(questions[k].id)}),
                       30 * 52)
        /\ WorstCase => (triageResult.score = 100 /\ triageResult.urgencyLevel = "critical")

\* only the multiple-choice question is answered, with its third option of four:
\* 2/3 of 8 points of 52
C20_Witness ==
    /\ triaged
    /\ {k \in DOMAIN questions : Answered(questions[k].id)} = {3}
    /\ AnswerOf("bleeding") = "Moderato"
    /\ triageResult.score = 10

\* C21: an empty response list yields score 0, urgencyLevel low, veterinarianRequired
\* false and emergencyServices false (a result, not an error).
C21_EmptyIsLow ==
    (triaged /\ responses = <<>>) =>
        triageResult = [score |-> 0, urgencyLevel |-> "low",
                        veterinarianRequired |-> FALSE, emergencyServices |-> FALSE]

C21_Witness ==
    /\ triaged /\ Len(responses) = 0
    /\ triageResult.score = 0 /\ triageResult.urgencyLevel = "low"
    /\ ~triageResult.veterinarianRequired /\ ~triageResult.emergencyServices

----------------------------------------------------------------------------
(* The match-action endpoint (POST /matches/action) and the hooks of the
   Matches collection.  Owner o owns dog o and acts on the pair {1, 2}; each
   await of the handler is one step, so the requests of the two owners
   interleave. *)

MaxActions == 4

OtherDog(o) == 3 - o

MatchActions == {"like", "pass"}

StoredAction(action) == IF action = "like" THEN "liked" ELSE "passed"

\* where: { or: [ {dog1 = d1, dog2 = d2}, {dog1 = d2, dog2 = d1} ] }
PairRecords(d1, d2) ==
    {i \in DOMAIN matches :
        \/ matches[i].dog1 = d1 /\ matches[i].dog2 = d2
        \/ matches[i].dog1 = d2 /\ matches[i].dog2 = d1}

\* beforeChange hook "Auto-update status based on actions": data carries the
\* fields of the write; a field the write leaves out is "absent".
AutoUpdateStatus(user1Action, user2Action, status) ==
    IF user1Action # "absent" /\ user2Action # "absent"
    THEN IF user1Action = "liked" /\ user2Action = "liked" THEN "matched"
         ELSE IF user1Action = "passed" \/ user2Action = "passed" THEN "rejected"
         ELSE status
    ELSE status

\* the status the handler puts into updateData ("absent": none)
UpdateStatus(action, otherAction) ==
    IF action = "like" /\ otherAction = "liked" THEN "matched"
    ELSE IF action = "pass" \/ otherAction = "passed" THEN "rejected"
    ELSE "absent"

\* payload.find(...limit: 1) of the handler; 0 stands for an empty docs array.
\* No sort is given, so any record of the pair may be docs[0].
FindMatch(o, action) ==
    /\ apc[o] = "idle"
    /\ acted < MaxActions
    /\ \E found \in (IF PairRecords(o, OtherDog(o)) = {} THEN {0} ELSE PairRecords(o, OtherDog(o))) :
         LET isReverse == found # 0 /\ matches[found].dog1 = OtherDog(o)
             otherAction == IF found = 0 THEN "none"
                            ELSE IF isReverse THEN matches[found].user1Action
                            ELSE matches[found].user2Action
         IN  areq' = [areq EXCEPT ![o] = [action |-> action, found |-> found,
                                           otherAction |-> otherAction]]
    /\ apc' = [apc EXCEPT ![o] = "found"]
    /\ acted' = acted + 1
    /\ UNCHANGED <<matches, availVars, triageVars, matchVars, lifecycleVars, limiterVars>>

\* payload.create: the beforeChange hook "Validate unique dog pairing" looks the
\* pair up; a hit throws and the handler answers 500.
ValidateUniquePairing(o) ==
    /\ apc[o] = "found"
    /\ areq[o].found = 0
    /\ apc' = [apc EXCEPT ![o] = IF PairRecords(o, OtherDog(o)) # {} THEN "idle" ELSE "validated"]
    /\ areq' = [areq EXCEPT ![o] = IF PairRecords(o, OtherDog(o)) # {} THEN NoAction ELSE @]
    /\ UNCHANGED <<matches, acted, availVars, triageVars, matchVars, lifecycleVars, limiterVars>>

\* payload.create, after the hook's look-up: the remaining hooks and the insert.
\* isReverse is false here, so the action goes to user1Action; user2Action gets
\* its defaultValue.
InsertMatch(o) ==
    /\ apc[o] = "validated"
    /\ matches' = Append(matches,
          [dog1 |-> o, dog2 |-> OtherDog(o),
           user1Action |-> StoredAction(areq[o].action),
           user2Action |-> "pending",
           status |-> AutoUpdateStatus(StoredAction(areq[o].action), "pending", "pending")])
    /\ apc' = [apc EXCEPT ![o] = "idle"]
    /\ areq' = [areq EXCEPT ![o] = NoAction]
    /\ UNCHANGED <<acted, availVars, triageVars, matchVars, lifecycleVars, limiterVars>>

\* payload.update of the record found, with the otherAction read at the find
UpdateMatch(o) ==
    /\ apc[o] = "found"
    /\ areq[o].found # 0
    /\ LET i == areq[o].found
           isReverse == matches[i].dog1 = OtherDog(o)
           newAction == StoredAction(areq[o].action)
           dataStatus == UpdateStatus(areq[o].action, areq[o].otherAction)
           hooked == AutoUpdateStatus(IF isReverse THEN "absent" ELSE newAction,
                                      IF isReverse THEN newAction ELSE "absent",
                                      dataStatus)
       IN  matches' = [matches EXCEPT
                          ![i].user1Action = IF isReverse THEN @ ELSE newAction,
                          ![i].user2Action = IF isReverse THEN newAction ELSE @,
                          ![i].status = IF hooked = "absent" THEN @ ELSE hooked]
    /\ apc' = [apc EXCEPT ![o] = "idle"]
    /\ areq' = [areq EXCEPT ![o] = NoAction]
    /\ UNCHANGED <<acted, availVars, triageVars, matchVars, lifecycleVars, limiterVars>>

InitAction ==
    /\ AvailIdle /\ TriageIdle /\ MatchIdle
    /\ ServiceIdle

NextAction ==
    \/ \E o \in Owners : \E action \in MatchActions : FindMatch(o, action)
    \/ \E o \in Owners : ValidateUniquePairing(o)
    \/ \E o \in Owners : InsertMatch(o)
    \/ \E o \in Owners : UpdateMatch(o)

SpecAction == InitAction /\ [][NextAction]_vars

\* the status the claim derives from the two stored actions
DerivedStatus(user1Action, user2Action) ==
    IF user1Action = "liked" /\ user2Action = "liked" THEN "matched"
    ELSE IF user1Action = "passed" \/ user2Action = "passed" THEN "rejected"
    ELSE "pending"

\* C22: once no match-action request is in progress, the stored status of every
\* match record is the one derived from its two stored actions: matched exactly
\* when both are liked, rejected exactly when at least one is passed, pending
\* otherwise.
C22_StatusDerivedFromActions ==
    (\A o \in Owners : apc[o] = "idle") =>
        \A i \in DOMAIN matches :
            matches[i].status = DerivedStatus(matches[i].user1Action, matches[i].user2Action)

\* C25: at most one match record exists for the unordered pair of dogs.
C25_OneRecordPerPair ==
    \A d \in Owners : Cardinality(PairRecords(d, OtherDog(d))) <= 1

----------------------------------------------------------------------------
(* Properties of POST /bookings (checked under Spec) *)

----------------------------------------------------------------------------
(* The booking endpoints in sequential execution: each request runs from its
   first statement to its response before the next one starts. *)

MaxDuration == 180           \* bookings.duration max
MaxLifecycleBookings == 2    \* bookings created in one behaviour
MaxLifecycleTick == 1        \* requested times are BaseTime + 30*k, k in 0..MaxLifecycleTick
MaxReviews == 2              \* accepted ratings per veterinarian

LifecycleTimes == {BaseTime + SlotMinutes * k : k \in 0..MaxLifecycleTick}
LifecycleDurations == {MinDuration, MaxDuration}
LifecycleBodies ==
    [dogOwned : BOOLEAN, veterinarianId : Vets, scheduledAt : LifecycleTimes,
     duration : LifecycleDurations, triageResponses : {<<>>}]
Roles == {"user", "veterinarian", "admin"}
RatingInputs == {0, 1, 5, 6}

\* POST /bookings from its first statement to its response
PostBooking(body) ==
    /\ Len(bookings) < MaxLifecycleBookings
    /\ LET status ==
               IF ~body.dogOwned THEN 403
               ELSE IF body.veterinarianId \notin DOMAIN veterinarians
                       \/ ~veterinarians[body.veterinarianId].isAcceptingPatients
                    THEN 400
               ELSE IF RequestedTime(body.scheduledAt) \notin
                         Range(getVeterinarianAvailability(veterinarians, bookings,
                                                           body.veterinarianId, date))
                    THEN 409
               ELSE 201
       IN  /\ response' = [endpoint |-> "create", status |-> status]
           /\ bookings' = IF status = 201 THEN Append(bookings, NewBooking(body)) ELSE bookings
    /\ UNCHANGED <<veterinarians, date, queryVet, availableSlots, queried, validationError,
                   pc, req, triageVars, matchVars, reviews, actionVars, limiterVars>>

\* PATCH /bookings/:id/reschedule: 403 unless the caller is an admin or the
\* booking's user (owner), 400 unless the new time is in the future, 400 unless its
\* HH:MM is an available slot of the booking's veterinarian; otherwise the new time
\* is stored and the status reset to 'pending', whatever the status was
RescheduleBooking(i, admin, owner, newDateTime, future) ==
    /\ i \in DOMAIN bookings
    /\ LET status ==
               IF ~admin /\ ~owner THEN 403
               ELSE IF ~future THEN 400
               ELSE IF TimeString(newDateTime) \notin
                         Range(getVeterinarianAvailability(veterinarians, bookings,
                                                           bookings[i].veterinarianId, date))
                    THEN 400
               ELSE 200
       IN  /\ response' = [endpoint |-> "reschedule", status |-> status]
           /\ bookings' = IF status = 200
                          THEN [bookings EXCEPT ![i].scheduledAt = newDateTime,
                                                ![i].status = "pending"]
                          ELSE bookings
    /\ UNCHANGED <<veterinarians, date, queryVet, availableSlots, queried, validationError,
                   pc, req, triageVars, matchVars, reviews, actionVars, limiterVars>>

\* PATCH /bookings/:id/complete: 403 unless the caller is a veterinarian or an admin,
\* 403 unless an admin or the booking's veterinarian (assigned); otherwise the status
\* becomes 'completed', whatever it was
CompleteBooking(i, role, assigned) ==
    /\ i \in DOMAIN bookings
    /\ LET status ==
               IF role # "veterinarian" /\ role # "admin" THEN 403
               ELSE IF role # "admin" /\ ~assigned THEN 403
               ELSE 200
       IN  /\ response' = [endpoint |-> "complete", status |-> status]
           /\ bookings' = IF status = 200
                          THEN [bookings EXCEPT ![i].status = "completed"]
                          ELSE bookings
    /\ UNCHANGED <<veterinarians, date, queryVet, availableSlots, queried, validationError,
                   pc, req, triageVars, matchVars, reviews, actionVars, limiterVars>>

\* the veterinarian's rating (in tenths) and totalReviews after one more rating:
\* Math.round(((rating * totalReviews) + rating) / newTotalReviews * 10) / 10
NewReviews(review, rating) ==
    [rating |-> RoundDiv(review.rating * review.totalReviews + 10 * rating,
                         review.totalReviews + 1),
     totalReviews |-> review.totalReviews + 1]

\* PATCH /bookings/:id/rate: 400 unless the rating is in 1..5, 403 unless the caller
\* is an admin or the booking's user (owner), 400 unless the booking is completed;
\* otherwise the rating is stored on the booking and the veterinarian's rating and
\* totalReviews are recomputed
RateBooking(i, rating, admin, owner) ==
    /\ i \in DOMAIN bookings
    /\ reviews[bookings[i].veterinarianId].totalReviews < MaxReviews
    /\ LET status ==
               IF rating = 0 \/ rating < 1 \/ rating > 5 THEN 400
               ELSE IF ~admin /\ ~owner THEN 403
               ELSE IF bookings[i].status # "completed" THEN 400
               ELSE 200
       IN  /\ response' = [endpoint |-> "rate", status |-> status]
           /\ bookings' = IF status = 200
                          THEN [bookings EXCEPT ![i].customerRating = rating]
                          ELSE bookings
           /\ reviews' = IF status = 200
                         THEN [reviews EXCEPT ![bookings[i].veterinarianId] = NewReviews(@, rating)]
                         ELSE reviews
    /\ UNCHANGED <<veterinarians, date, queryVet, availableSlots, queried, validationError,
                   pc, req, triageVars, matchVars, actionVars, limiterVars>>

NextLifecycle ==
    \/ \E body \in LifecycleBodies : PostBooking(body)
    \/ \E i \in 1..MaxLifecycleBookings : \E admin, authorized, early \in BOOLEAN :
          CancelBooking(i, admin, authorized, early)
    \/ \E i \in 1..MaxLifecycleBookings : \E admin, owner, future \in BOOLEAN :
          \E newDateTime \in LifecycleTimes :
             RescheduleBooking(i, admin, owner, newDateTime, future)
    \/ \E i \in 1..MaxLifecycleBookings : \E role \in Roles : \E assigned \in BOOLEAN :
          CompleteBooking(i, role, assigned)
    \/ \E i \in 1..MaxLifecycleBookings : \E rating \in RatingInputs :
          \E admin, owner \in BOOLEAN : RateBooking(i, rating, admin, owner)

\* the veterinarians of Init, the second one not accepting patients
InitLifecycle == Init /\ ~veterinarians["v2"].isAcceptingPatients

SpecLifecycle == InitLifecycle /\ [][NextLifecycle]_vars

----------------------------------------------------------------------------
(* Properties of the booking endpoints (checked under SpecLifecycle) *)

\* C26: a cancel request of a caller who is not an admin, made less than 24 hours
\* before the scheduled time, is rejected and leaves the booking's status,
\* cancellation reason and notes as they were; a cancel request of an admin is
\* answered 200 and cancels the booking, early or late.
C26_LateCancelIsRejected ==
    [][\A i \in DOMAIN bookings :
          /\ \A authorized \in BOOLEAN :
                CancelBooking(i, FALSE, authorized, FALSE) =>
                    /\ response'.status \in {400, 403}
                    /\ bookings'[i].status = bookings[i].status
                    /\ bookings'[i].cancelledReason = bookings[i].cancelledReason
                    /\ bookings'[i].cancellationNotes = bookings[i].cancellationNotes
          /\ \A authorized, early \in BOOLEAN :
                CancelBooking(i, TRUE, authorized, early) =>
                    /\ response'.status = 200
                    /\ bookings'[i].status = "cancelled"]_vars

\* a cancel request answered 400 (the 24-hour rule), the booking still pending and
\* without a cancellation reason
C26_Witness ==
    /\ response = [endpoint |-> "cancel", status |-> 400]
    /\ Len(bookings) = 1
    /\ bookings[1].status = "pending"
    /\ bookings[1].cancelledReason = "none"
    /\ bookings[1].cancellationNotes = "none"

\* C27: no two bookings of one veterinarian that are not cancelled have overlapping
\* intervals [scheduledAt, scheduledAt + duration).
C27_NoOverlap ==
    \A i, j \in DOMAIN bookings :
        (/\ i < j
         /\ bookings[i].veterinarianId = bookings[j].veterinarianId
         /\ bookings[i].status # "cancelled"
         /\ bookings[j].status # "cancelled")
        => ~(/\ bookings[i].scheduledAt < bookings[j].scheduledAt + bookings[j].duration
             /\ bookings[j].scheduledAt < bookings[i].scheduledAt + bookings[i].duration)

\* C28: cancelled and completed are terminal: no request changes the status of a
\* booking that is cancelled or completed.
C28_TerminalStatuses ==
    [][\A i \in DOMAIN bookings :
          bookings[i].status \in {"cancelled", "completed"}
              => bookings'[i].status = bookings[i].status]_vars

\* C29: a veterinarian's totalReviews is the number of the veterinarian's completed
\* bookings that carry a customer rating.
C29_TotalReviewsCountsRatedBookings ==
    \A v \in Vets :
        reviews[v].totalReviews =
            Cardinality({i \in DOMAIN bookings :
                            /\ bookings[i].veterinarianId = v
                            /\ bookings[i].status = "completed"
                            /\ bookings[i].customerRating # 0})

----------------------------------------------------------------------------
(* The in-memory rate limiter validateRateLimit(windowMs, max).  Time is in
   ticks of half a window. *)

LimiterWindowMs == 2     \* windowMs
LimiterMax == 2          \* max
MaxLimiterNow == 5       \* Date.now() runs from 0 to MaxLimiterNow
MaxCount == 4            \* requests of one key counted in one window

\* if (v.resetTime < windowStart) requests.delete(k)
CleanOldEntries(map, windowStart) ==
    [k \in Keys |-> IF map[k].present /\ map[k].resetTime < windowStart THEN NoEntry ELSE map[k]]

\* requests.get(key) || { count: 0, resetTime: now + windowMs }, then the reset of
\* an entry whose resetTime has passed, then count++
CountRequest(map, key, time) ==
    LET found == IF map[key].present THEN map[key]
                 ELSE [present |-> TRUE, count |-> 0, resetTime |-> time + LimiterWindowMs]
        current == IF found.resetTime < time
                   THEN [present |-> TRUE, count |-> 0, resetTime |-> time + LimiterWindowMs]
                   ELSE found
    IN  [current EXCEPT !.count = @ + 1]

\* Exceeded that lets one more request through
Exceeded_OneMore(count) == count > LimiterMax + 1

\* if (current.count > max)
Exceeded(count) == count > LimiterMax

\* whether a request at `time` falls into the window that window[key] describes:
\* one was opened and its resetTime (openedAt + windowMs) has not passed
InWindow(key, time) ==
    window[key].openedAt >= 0 /\ time <= window[key].openedAt + LimiterWindowMs

\* one request through the middleware; window records, for the claim, the window
\* the request falls into and how many of its requests reached next()
LimiterRequest(key) ==
    LET current == CountRequest(CleanOldEntries(requests, limiterNow - LimiterWindowMs),
                                key, limiterNow)
        passed == IF Exceeded(current.count) THEN 0 ELSE 1
    IN  /\ current.count <= MaxCount
        /\ requests' = [CleanOldEntries(requests, limiterNow - LimiterWindowMs)
                           EXCEPT ![key] = current]
        /\ verdict' = IF Exceeded(current.count) THEN "429" ELSE "next"
        /\ window' = [window EXCEPT ![key] =
                         IF InWindow(key, limiterNow)
                         THEN [@ EXCEPT !.passed = @ + passed]
                         ELSE [openedAt |-> limiterNow, passed |-> passed]]
        /\ UNCHANGED <<limiterNow, availVars, triageVars, matchVars, lifecycleVars, actionVars>>

\* Date.now() advances
LimiterTick ==
    /\ limiterNow < MaxLimiterNow
    /\ limiterNow' = limiterNow + 1
    /\ UNCHANGED <<requests, window, verdict, availVars, triageVars, matchVars,
                   lifecycleVars, actionVars>>

InitLimiter ==
    /\ AvailIdle /\ TriageIdle /\ MatchIdle
    /\ ServiceIdle

NextLimiter ==
    \/ \E key \in Keys : LimiterRequest(key)
    \/ LimiterTick

SpecLimiter == InitLimiter /\ [][NextLimiter]_vars

\* C30: for every key and every fixed window, from the request that opens it until
\* its resetTime, at most max requests are passed on; a request in a window that has
\* passed max requests is answered 429; the first request after resetTime (or the
\* first request of a key) is passed on and starts a window with count 1 that ends
\* windowMs later.
C30_AtMostMaxPerWindow ==
    /\ [](\A key \in Keys : window[key].passed <= LimiterMax)
    /\ [][\A key \in Keys :
             LimiterRequest(key) =>
                 /\ (InWindow(key, limiterNow) /\ window[key].passed = LimiterMax)
                       => verdict' = "429"
                 /\ ~InWindow(key, limiterNow)
                       => /\ verdict' = "next"
                          /\ requests'[key].count = 1
                          /\ requests'[key].resetTime = limiterNow + LimiterWindowMs]_vars

\* a key whose window has passed max requests and whose last request was answered
\* 429, in a window that is not the key's first
C30_Witness ==
    \E key \in Keys :
        /\ verdict = "429"
        /\ window[key].passed = LimiterMax
        /\ requests[key].count > LimiterMax
        /\ window[key].openedAt > LimiterWindowMs
====
